---- MODULE Spec2Model ----
(***************************************************************************)
(* GoldCatlog: the admin panel (AdminPanel.jsx) and the catalog            *)
(* (Catalog.jsx) over a shared realtime document store and a blob store.   *)
(*                                                                         *)
(* Strings whose characters the code looks at (name, description, weight)  *)
(* are sequences of one-character strings; "" is <<>>.  Document ids are   *)
(* positive integers in key order; null is 0.  A document is a record      *)
(* whose DOMAIN is the set of fields it has, so an absent field is a       *)
(* field outside the DOMAIN.                                               *)
(***************************************************************************)
EXTENDS Integers, Sequences, FiniteSets, TLC

VARIABLES
  db,             \* the store: products/{id} -> document
  blobs,          \* the blob store: products/{id} -> uploaded file
  nextKey,        \* the next key push() generates
  products,       \* AdminPanel state, per client: the last delivered snapshot
  formData,       \* AdminPanel state, per client
  isSubmitting,   \* AdminPanel state, per client
  successMessage, \* AdminPanel state, per client
  editMode,       \* AdminPanel state, per client
  editId,         \* AdminPanel state, per client
  sub,            \* per client: the handleSubmit invocation in flight and its closure
  ev,             \* what the last handler run showed and whether its store call failed
  gestures,       \* how many form gestures the users have made
  writes          \* how many writes the store has applied

adminVars == <<db, blobs, nextKey, products, formData, isSubmitting, successMessage,
               editMode, editId, sub, ev, gestures, writes>>

VARIABLES
  catProducts,       \* Catalog state: products
  searchTerm,        \* Catalog state
  categoryFilter,    \* Catalog state
  weightRange,       \* Catalog state
  stockFilter,       \* Catalog state
  isLoading,         \* Catalog state
  sortBy,            \* Catalog state
  favorites,         \* Catalog state
  showFavoritesOnly, \* Catalog state
  animateItems,      \* Catalog state
  localStorage,      \* the goldShopFavorites entry of the browser: <<>> or <<text>>
  goldRate,          \* Catalog state
  makingCharge,      \* Catalog state
  priceCall,         \* the last calculatePrice call: its arguments and what it returned
  uncaught,          \* where an exception left the Catalog code in this session:
                     \* "" (nowhere), "handler" (an event handler), "effect" (the
                     \* mount effect, after which React unmounts the page)
  selectedProduct,     \* Catalog state: the product of the detail modal
  isQuickViewVisible,  \* Catalog state
  quickViewProduct,    \* Catalog state
  isCalculatorVisible, \* Catalog state
  calculatorProduct,   \* Catalog state
  timeouts             \* the pending 300 ms timeouts of hideQuickView and hideCalculator

\* the calculator state and the escaped-exception mark
calcVars == <<goldRate, makingCharge, priceCall, uncaught>>

\* the detail modal, the quick view and the calculator overlay
overlayVars == <<selectedProduct, isQuickViewVisible, quickViewProduct,
                 isCalculatorVisible, calculatorProduct, timeouts>>

catVars == <<catProducts, searchTerm, categoryFilter, weightRange, stockFilter, isLoading,
             sortBy, favorites, showFavoritesOnly, animateItems, localStorage, calcVars,
             overlayVars>>

vars == <<adminVars, catVars>>

----------------------------------------------------------------------------
(* Bounds *)

\* admin clients
NumAdmins == 2
\* keys push() may allocate
MaxKeys == 1
\* form gestures (typing, choosing a file, Edit, Cancel) over all clients
MaxGestures == 3
\* writes the store applies over all clients
MaxWrites == 2
\* documents in a collection the catalog is opened on
MaxCatalogDocs == 2
\* timeouts of one overlay that are pending at the same time
MaxTimers == 1

Admins == 1..NumAdmins

null == 0
FirstKey == 2
File1 == 1

----------------------------------------------------------------------------
(* Values *)

EmptyStr == <<>>
NameRi == <<"R", "i">>
Weight5g == <<"5", "g">>
NoUrl == <<>>
Url1 == <<"url", 1>>

RequiredMsg == "Please fill all required fields"
StoreErrorMsg == "store error"
AddedMsg == "Product added successfully!"
UpdatedMsg == "Product updated successfully!"

\* the retrieval URL getDownloadURL resolves for the blob under products/{key}
DownloadURL(key) == <<"dl", key>>

Has(r, f) == f \in DOMAIN r

\* r.f, undefined read as the given default
Get(r, f, default) == IF Has(r, f) THEN r[f] ELSE default

\* { ...r, [f]: v }
Put(r, f, v) == [g \in DOMAIN r \cup {f} |-> IF g = f THEN v ELSE r[g]]

\* { ...r } without field f
Drop(r, f) == [g \in DOMAIN r \ {f} |-> r[g]]

\* { ...a, ...b }
Merge(a, b) == [g \in DOMAIN a \cup DOMAIN b |-> IF g \in DOMAIN b THEN b[g] ELSE a[g]]

\* JavaScript truthiness of an optional string-like field
TruthyStr(r, f) == Has(r, f) /\ r[f] # <<>>

\* JavaScript truthiness of the optional category / price field
TruthyText(r, f) == Has(r, f) /\ r[f] # ""

\* JavaScript truthiness of the optional boolean field
TruthyBool(r, f) == Has(r, f) /\ r[f]

----------------------------------------------------------------------------
(* The store *)

\* a document written before inStock, imageUrl, description and price existed
LegacyDoc == [name |-> NameRi, weight |-> Weight5g, category |-> "ring"]

\* a document as the admin form writes it
ListedDoc == [name |-> NameRi, weight |-> Weight5g, description |-> EmptyStr,
              category |-> "ring", imageUrl |-> Url1, inStock |-> FALSE]

SeedStores == { [i \in {1} |-> LegacyDoc], [i \in {1} |-> ListedDoc] }

\* set(ref(db, products/id), data)
Set(store, id, data) ==
  [i \in DOMAIN store \cup {id} |-> IF i = id THEN data ELSE store[i]]

\* update(ref(db, products/id), data): merges into the node, creating it if absent
Update(store, id, data) ==
  [i \in DOMAIN store \cup {id} |->
     IF i = id THEN (IF id \in DOMAIN store THEN Merge(store[id], data) ELSE data)
     ELSE store[i]]

\* remove(ref(db, products/id))
Remove(store, id) == [i \in DOMAIN store \ {id} |-> store[i]]

Min(S) == CHOOSE x \in S : \A y \in S : x <= y

RECURSIVE SortedKeys(_)
SortedKeys(S) == IF S = {} THEN <<>> ELSE <<Min(S)>> \o SortedKeys(S \ {Min(S)})

\* the onValue callback's argument: Object.entries(data).map(([id, item]) => ({ id, ...item }))
Snapshot(store) ==
  LET keys == SortedKeys(DOMAIN store)
  IN [n \in 1..Len(keys) |-> Put(store[keys[n]], "id", keys[n])]

Elems(s) == { s[n] : n \in 1..Len(s) }

\* products.find(p => p.id === id); <<>> when there is none
Find(prods, id) ==
  LET hits == { n \in 1..Len(prods) : prods[n].id = id }
  IN IF hits = {} THEN <<>> ELSE <<prods[Min(hits)]>>

----------------------------------------------------------------------------
(* AdminPanel *)

InitialForm == [name |-> EmptyStr, weight |-> EmptyStr, description |-> EmptyStr,
                category |-> "", image |-> null, imageUrl |-> NoUrl,
                inStock |-> TRUE, price |-> ""]

\* the form resetForm sets: no price field
ResetFormData == [name |-> EmptyStr, weight |-> EmptyStr, description |-> EmptyStr,
                  category |-> "", image |-> null, imageUrl |-> NoUrl, inStock |-> TRUE]

IdleSub == [pc |-> "idle"]

NoEv == [c |-> null, alert |-> "", failed |-> FALSE]

\* what a handler run of client c showed (alert) and whether its store call was rejected
Ev(c, alert, failed) ==
  IF alert = "" /\ ~failed THEN NoEv ELSE [c |-> c, alert |-> alert, failed |-> failed]

\* what the user can put into a form field
InputValues(field) ==
  CASE field = "name" -> {EmptyStr, NameRi}
    [] field = "weight" -> {EmptyStr, Weight5g}
    [] field = "category" -> {"", "ring"}
    [] field = "imageUrl" -> {NoUrl, Url1}

InputNames == {"name", "weight", "category", "imageUrl"}

\* a required-field check that forgets the category
MissingRequiredNoCategory(productData) ==
  productData.name = EmptyStr \/ productData.weight = EmptyStr

\* the required-field check: !name || !weight || !category
MissingRequired(productData) ==
  productData.name = EmptyStr \/ productData.weight = EmptyStr \/ productData.category = ""

\* editMode && editId
IsEditRef(em, eid) == em /\ eid # null

\* a dbRef that in create mode points at the first document
DbRefFirstDocument(em, eid, pushKey) == IF IsEditRef(em, eid) THEN eid ELSE 1

\* the key of dbRef
DbRefKey(em, eid, pushKey) == IF IsEditRef(em, eid) THEN eid ELSE pushKey

\* the key of fileRef: products/${editMode ? editId : dbRef.key}
FileRefKey(em, eid, dbRefKey) == IF em THEN eid ELSE dbRefKey

\* a branch order in which a typed URL wins over a chosen file
UrlBeforeFile(form) == form.image # null /\ form.imageUrl = NoUrl

\* if (image): the upload branch is taken
TakesFile(form) == form.image # null

\* the branches taken when no file was chosen
ResolveImageUrl(productData, em, eid, prods) ==
  IF productData.imageUrl # NoUrl THEN productData
  ELSE IF em
    THEN LET existingProduct == Find(prods, eid)
         IN IF existingProduct # <<>> /\ TruthyStr(existingProduct[1], "imageUrl")
            THEN Put(productData, "imageUrl", existingProduct[1].imageUrl)
            ELSE productData
    ELSE productData

\* the write of handleSubmit: update in edit mode, set otherwise
SubmitWrite(store, s) ==
  IF s.editMode THEN Update(store, s.key, s.productData)
  ELSE Set(store, s.key, s.productData)

\* a handleSubmit whose catch block is not followed by the finally block
SubmitFailedNoFinally(c, msg, failed) ==
  /\ ev' = Ev(c, msg, failed)
  /\ isSubmitting' = [isSubmitting EXCEPT ![c] = TRUE]
  /\ sub' = [sub EXCEPT ![c] = IdleSub]

\* the catch and finally blocks of handleSubmit
SubmitFailed(c, msg, failed) ==
  /\ ev' = Ev(c, msg, failed)
  /\ isSubmitting' = [isSubmitting EXCEPT ![c] = FALSE]
  /\ sub' = [sub EXCEPT ![c] = IdleSub]

\* handleSubmit up to its first await; the submit button is disabled while isSubmitting
HandleSubmit(c) ==
  /\ ~isSubmitting[c]
  /\ sub[c].pc = "idle"
  /\ LET form == formData[c]
         productData == Drop(form, "image")
         em == editMode[c]
         eid == editId[c]
         key == DbRefKey(em, eid, nextKey)
         closure == [formData |-> form, editMode |-> em, editId |-> eid, key |-> key]
     IN IF MissingRequired(productData)
        THEN /\ SubmitFailed(c, RequiredMsg, FALSE)
             /\ UNCHANGED nextKey
        ELSE /\ IsEditRef(em, eid) \/ nextKey < FirstKey + MaxKeys
             /\ nextKey' = IF IsEditRef(em, eid) THEN nextKey ELSE nextKey + 1
             /\ isSubmitting' = [isSubmitting EXCEPT ![c] = TRUE]
             /\ sub' = [sub EXCEPT ![c] =
                  IF TakesFile(form)
                  THEN closure @@ [pc |-> "upload", productData |-> productData,
                                   fileKey |-> FileRefKey(em, eid, key)]
                  ELSE closure @@ [pc |-> "write",
                                   productData |->
                                     ResolveImageUrl(productData, em, eid, products[c]),
                                   fileKey |-> null]]
             /\ ev' = NoEv
  /\ UNCHANGED <<db, blobs, products, formData, successMessage, editMode, editId,
                 gestures, writes>>
  /\ UNCHANGED catVars

\* an invocation that goes on after a rejected upload
AfterUploadSwallowed(s, ok) == [s EXCEPT !.pc = "geturl"]

\* the invocation after uploadBytes settled: a rejection leaves the try block
AfterUpload(s, ok) == IF ok THEN [s EXCEPT !.pc = "geturl"] ELSE IdleSub

\* await uploadBytes(fileRef, image)
UploadDone(c, ok) ==
  /\ sub[c].pc = "upload"
  /\ blobs' = IF ok THEN Set(blobs, sub[c].fileKey, sub[c].formData.image) ELSE blobs
  /\ IF AfterUpload(sub[c], ok) # IdleSub
     THEN /\ sub' = [sub EXCEPT ![c] = AfterUpload(sub[c], ok)]
          /\ ev' = Ev(c, "", ~ok)
          /\ UNCHANGED isSubmitting
     ELSE SubmitFailed(c, StoreErrorMsg, TRUE)
  /\ UNCHANGED <<db, nextKey, products, formData, successMessage, editMode, editId,
                 gestures, writes>>
  /\ UNCHANGED catVars

\* await getDownloadURL(fileRef); productData.imageUrl = uploadedImageUrl
GetUrlDone(c, ok) ==
  /\ sub[c].pc = "geturl"
  /\ IF ok
     THEN /\ sub' = [sub EXCEPT ![c].pc = "write",
                                ![c].productData =
                                   Put(@, "imageUrl", DownloadURL(sub[c].fileKey))]
          /\ ev' = NoEv
          /\ UNCHANGED isSubmitting
     ELSE SubmitFailed(c, StoreErrorMsg, TRUE)
  /\ UNCHANGED <<db, blobs, nextKey, products, formData, successMessage, editMode,
                 editId, gestures, writes>>
  /\ UNCHANGED catVars

\* await update / set, then the success message and resetForm
WriteDone(c, ok) ==
  /\ sub[c].pc = "write"
  /\ IF ok
     THEN /\ writes < MaxWrites
          /\ writes' = writes + 1
          /\ db' = SubmitWrite(db, sub[c])
          /\ products' = [products EXCEPT ![c] = Snapshot(db')]
          /\ successMessage' = [successMessage EXCEPT ![c] =
                                  IF sub[c].editMode THEN UpdatedMsg ELSE AddedMsg]
          /\ formData' = [formData EXCEPT ![c] = ResetFormData]
          /\ editMode' = [editMode EXCEPT ![c] = FALSE]
          /\ editId' = [editId EXCEPT ![c] = null]
          /\ isSubmitting' = [isSubmitting EXCEPT ![c] = FALSE]
          /\ sub' = [sub EXCEPT ![c] = IdleSub]
          /\ ev' = NoEv
     ELSE /\ SubmitFailed(c, StoreErrorMsg, TRUE)
          /\ UNCHANGED <<db, products, formData, successMessage, editMode, editId, writes>>
  /\ UNCHANGED <<blobs, nextKey, gestures>>
  /\ UNCHANGED catVars

\* setTimeout(() => setSuccessMessage(''), 3000): pending while the message shows
ClearSuccess(c) ==
  /\ successMessage[c] # ""
  /\ successMessage' = [successMessage EXCEPT ![c] = ""]
  /\ ev' = NoEv
  /\ UNCHANGED <<db, blobs, nextKey, products, formData, isSubmitting, editMode, editId,
                 sub, gestures, writes>>
  /\ UNCHANGED catVars

\* a resetForm that leaves editId as it is
ResetFormKeepsId(c) ==
  /\ editMode[c]
  /\ gestures < MaxGestures
  /\ gestures' = gestures + 1
  /\ formData' = [formData EXCEPT ![c] = ResetFormData]
  /\ editMode' = [editMode EXCEPT ![c] = FALSE]
  /\ ev' = NoEv
  /\ UNCHANGED <<db, blobs, nextKey, products, isSubmitting, successMessage, editId, sub,
                 writes>>
  /\ UNCHANGED catVars

\* resetForm as the Cancel button calls it; the button is rendered in edit mode
ResetForm(c) ==
  /\ editMode[c]
  /\ gestures < MaxGestures
  /\ gestures' = gestures + 1
  /\ formData' = [formData EXCEPT ![c] = ResetFormData]
  /\ editMode' = [editMode EXCEPT ![c] = FALSE]
  /\ editId' = [editId EXCEPT ![c] = null]
  /\ ev' = NoEv
  /\ UNCHANGED <<db, blobs, nextKey, products, isSubmitting, successMessage, sub, writes>>
  /\ UNCHANGED catVars

\* the form handleEdit loads from a product of the list
EditForm(product) ==
  [name |-> Get(product, "name", EmptyStr),
   weight |-> Get(product, "weight", EmptyStr),
   description |-> Get(product, "description", EmptyStr),
   category |-> Get(product, "category", ""),
   image |-> null,
   imageUrl |-> Get(product, "imageUrl", NoUrl),
   inStock |-> Get(product, "inStock", TRUE) # FALSE,
   price |-> Get(product, "price", "")]

HandleEdit(c, product) ==
  /\ gestures < MaxGestures
  /\ gestures' = gestures + 1
  /\ formData' = [formData EXCEPT ![c] = EditForm(product)]
  /\ editMode' = [editMode EXCEPT ![c] = TRUE]
  /\ editId' = [editId EXCEPT ![c] = product.id]
  /\ ev' = NoEv
  /\ UNCHANGED <<db, blobs, nextKey, products, isSubmitting, successMessage, sub, writes>>
  /\ UNCHANGED catVars

\* a handleDelete that removes without looking at the answer of window.confirm
HandleDeleteUnasked(c, id, confirmed, ok) ==
  /\ ok => writes < MaxWrites
  /\ writes' = IF ok THEN writes + 1 ELSE writes
  /\ db' = IF ok THEN Remove(db, id) ELSE db
  /\ products' = [products EXCEPT ![c] = IF ok THEN Snapshot(db') ELSE @]
  /\ ev' = Ev(c, "", ~ok)
  /\ UNCHANGED <<blobs, nextKey, formData, isSubmitting, successMessage, editMode,
                 editId, sub, gestures>>
  /\ UNCHANGED catVars

\* handleDelete: window.confirm, then remove, whose promise nobody awaits
HandleDelete(c, id, confirmed, ok) ==
  /\ (confirmed /\ ok) => writes < MaxWrites
  /\ writes' = IF confirmed /\ ok THEN writes + 1 ELSE writes
  /\ db' = IF confirmed /\ ok THEN Remove(db, id) ELSE db
  /\ products' = [products EXCEPT ![c] = IF confirmed /\ ok THEN Snapshot(db') ELSE @]
  /\ ev' = Ev(c, "", confirmed /\ ~ok)
  /\ UNCHANGED <<blobs, nextKey, formData, isSubmitting, successMessage, editMode,
                 editId, sub, gestures>>
  /\ UNCHANGED catVars

\* the value handleToggleStock writes: !product.inStock
ToggleValue(product) == ~TruthyBool(product, "inStock")

\* handleToggleStock: await update, with no try around it
HandleToggleStock(c, product, ok) ==
  /\ ok => writes < MaxWrites
  /\ writes' = IF ok THEN writes + 1 ELSE writes
  /\ db' = IF ok THEN Update(db, product.id, [inStock |-> ToggleValue(product)]) ELSE db
  /\ products' = [products EXCEPT ![c] = IF ok THEN Snapshot(db') ELSE @]
  /\ ev' = Ev(c, "", ~ok)
  /\ UNCHANGED <<blobs, nextKey, formData, isSubmitting, successMessage, editMode,
                 editId, sub, gestures>>
  /\ UNCHANGED catVars

HandleInputChange(c, name, value) ==
  /\ gestures < MaxGestures
  /\ gestures' = gestures + 1
  /\ formData' = [formData EXCEPT ![c] = Put(@, name, value)]
  /\ ev' = NoEv
  /\ UNCHANGED <<db, blobs, nextKey, products, isSubmitting, successMessage, editMode,
                 editId, sub, writes>>
  /\ UNCHANGED catVars

\* handleFileChange; file is e.target.files[0], null when the dialog was cancelled
HandleFileChange(c, file) ==
  /\ gestures < MaxGestures
  /\ gestures' = gestures + 1
  /\ formData' = [formData EXCEPT ![c] =
                    IF file # null THEN Put(Put(@, "image", file), "imageUrl", NoUrl) ELSE @]
  /\ ev' = NoEv
  /\ UNCHANGED <<db, blobs, nextKey, products, isSubmitting, successMessage, editMode,
                 editId, sub, writes>>
  /\ UNCHANGED catVars

\* an onValue callback that keeps the entries of the earlier snapshot
OnValueKeepsOld(c) ==
  /\ products[c] # Snapshot(db)
  /\ products' = [products EXCEPT ![c] = @ \o Snapshot(db)]
  /\ ev' = NoEv
  /\ UNCHANGED <<db, blobs, nextKey, formData, isSubmitting, successMessage, editMode,
                 editId, sub, gestures, writes>>
  /\ UNCHANGED catVars

\* the onValue callback of AdminPanel, for a change another client made
OnValue(c) ==
  /\ products[c] # Snapshot(db)
  /\ products' = [products EXCEPT ![c] = Snapshot(db)]
  /\ ev' = NoEv
  /\ UNCHANGED <<db, blobs, nextKey, formData, isSubmitting, successMessage, editMode,
                 editId, sub, gestures, writes>>
  /\ UNCHANGED catVars

AdminInit ==
  /\ blobs = [i \in {} |-> null]
  /\ nextKey = FirstKey
  /\ products = [c \in Admins |-> <<>>]
  /\ formData = [c \in Admins |-> InitialForm]
  /\ isSubmitting = [c \in Admins |-> FALSE]
  /\ successMessage = [c \in Admins |-> ""]
  /\ editMode = [c \in Admins |-> FALSE]
  /\ editId = [c \in Admins |-> null]
  /\ sub = [c \in Admins |-> IdleSub]
  /\ ev = NoEv
  /\ gestures = 0
  /\ writes = 0

\* calculatePrice has not been called
NoCall == [called |-> FALSE]

\* useState(null) of selectedProduct, quickViewProduct and calculatorProduct
NoProduct == [id |-> null]

CatalogInit ==
  /\ catProducts = <<>>
  /\ searchTerm = EmptyStr
  /\ categoryFilter = ""
  /\ weightRange = [min |-> 0, max |-> 1000]
  /\ stockFilter = "all"
  /\ isLoading = TRUE
  /\ sortBy = "featured"
  /\ favorites = <<>>
  /\ showFavoritesOnly = FALSE
  /\ animateItems = FALSE
  /\ localStorage = <<>>
  /\ goldRate = 0
  /\ makingCharge = 10
  /\ priceCall = NoCall
  /\ uncaught = ""
  /\ selectedProduct = NoProduct
  /\ isQuickViewVisible = FALSE
  /\ quickViewProduct = NoProduct
  /\ isCalculatorVisible = FALSE
  /\ calculatorProduct = NoProduct
  /\ timeouts = [quickView |-> 0, calculator |-> 0]

Init ==
  /\ db \in SeedStores
  /\ AdminInit
  /\ CatalogInit

Next ==
  \E c \in Admins :
    \/ HandleSubmit(c)
    \/ \E ok \in BOOLEAN : UploadDone(c, ok)
    \/ \E ok \in BOOLEAN : GetUrlDone(c, ok)
    \/ \E ok \in BOOLEAN : WriteDone(c, ok)
    \/ ClearSuccess(c)
    \/ ResetForm(c)
    \/ \E product \in Elems(products[c]) : HandleEdit(c, product)
    \/ \E product \in Elems(products[c]) : \E confirmed, ok \in BOOLEAN :
         HandleDelete(c, product.id, confirmed, ok)
    \/ \E product \in Elems(products[c]) : \E ok \in BOOLEAN :
         HandleToggleStock(c, product, ok)
    \/ \E name \in InputNames : \E value \in InputValues(name) :
         HandleInputChange(c, name, value)
    \/ \E file \in {null, File1} : HandleFileChange(c, file)
    \/ OnValue(c)

Spec == Init /\ [][Next]_vars

\* the store delivers every change to every subscribed client
FairSpec == Spec /\ \A c \in Admins : WF_vars(OnValue(c))

----------------------------------------------------------------------------
(* Catalog: strings and numbers *)

UpperChars == <<"A", "B", "C", "D", "E", "F", "G", "H", "I", "J", "K", "L", "M",
                "N", "O", "P", "Q", "R", "S", "T", "U", "V", "W", "X", "Y", "Z">>
LowerChars == <<"a", "b", "c", "d", "e", "f", "g", "h", "i", "j", "k", "l", "m",
                "n", "o", "p", "q", "r", "s", "t", "u", "v", "w", "x", "y", "z">>
DigitChars == <<"0", "1", "2", "3", "4", "5", "6", "7", "8", "9">>

IndexIn(chars, ch) == CHOOSE n \in 1..Len(chars) : chars[n] = ch

\* String.prototype.toLowerCase
ToLowerCase(str) ==
  [n \in 1..Len(str) |->
     IF str[n] \in Elems(UpperChars) THEN LowerChars[IndexIn(UpperChars, str[n])]
     ELSE str[n]]

\* String.prototype.includes
Includes(str, part) ==
  \E i \in 1..(Len(str) - Len(part) + 1) : SubSeq(str, i, i + Len(part) - 1) = part

IsDigit(ch) == ch \in Elems(DigitChars)

\* weight.replace(/[^\d.-]/g, '')
KeptByStrip(ch) == IsDigit(ch) \/ ch = "." \/ ch = "-"

StripWeight(str) == SelectSeq(str, KeptByStrip)

\* the length of the run of digits of str that starts at position i
RECURSIVE DigitRun(_, _)
DigitRun(str, i) ==
  IF i <= Len(str) /\ IsDigit(str[i]) THEN 1 + DigitRun(str, i + 1) ELSE 0

\* the number a string of digits denotes; 0 for the empty string
RECURSIVE DigitsValue(_)
DigitsValue(str) ==
  IF str = <<>> THEN 0
  ELSE 10 * DigitsValue(SubSeq(str, 1, Len(str) - 1))
       + (IndexIn(DigitChars, str[Len(str)]) - 1)

RECURSIVE Pow10(_)
Pow10(n) == IF n = 0 THEN 1 ELSE 10 * Pow10(n - 1)

NaN == [nan |-> TRUE, num |-> 0, den |-> 1]

\* parseFloat on a string of digits, dots and minus signs: the longest prefix
\* [-]digits[.digits], as the fraction num/den; NaN when that prefix has no digit
ParseFloat(str) ==
  LET neg == Len(str) > 0 /\ str[1] = "-"
      start == IF neg THEN 2 ELSE 1
      intLen == DigitRun(str, start)
      dotAt == start + intLen
      hasDot == dotAt <= Len(str) /\ str[dotAt] = "."
      fracLen == IF hasDot THEN DigitRun(str, dotAt + 1) ELSE 0
      digits == SubSeq(str, start, dotAt - 1) \o SubSeq(str, dotAt + 1, dotAt + fracLen)
  IN IF intLen + fracLen = 0 THEN NaN
     ELSE [nan |-> FALSE,
           num |-> (IF neg THEN -1 ELSE 1) * DigitsValue(digits),
           den |-> Pow10(fracLen)]

\* parseFloat(product.weight.replace(/[^\d.-]/g, ''))
ParsedWeight(product) == ParseFloat(StripWeight(product.weight))

\* w >= n and w <= n for a parsed number w and an integer n
AtLeast(w, n) == w.num >= n * w.den
\* an upper bound that shuts out the bound itself
Below(w, n) == w.num < n * w.den
AtMost(w, n) == w.num <= n * w.den

\* Math.floor and Math.ceil of a parsed number
Floor(w) == w.num \div w.den
Ceil(w) == -((-w.num) \div w.den)

----------------------------------------------------------------------------
(* Catalog *)

\* a node that only a stock toggle wrote
StubDoc == [inStock |-> TRUE]

ChainDoc == [name |-> <<"a", "B">>, weight |-> <<"1", "2", ".", "5", "g">>,
             description |-> <<"R", "i", "m">>, category |-> "chain",
             imageUrl |-> NoUrl, inStock |-> TRUE]

\* a document whose weight holds no number
UnweighedDoc == [name |-> <<"B">>, weight |-> <<"a", "-">>, description |-> EmptyStr,
                 category |-> "ring", imageUrl |-> NoUrl, inStock |-> FALSE]

CatalogDocs == {LegacyDoc, ChainDoc, UnweighedDoc, StubDoc}

\* the collections the catalog is opened on
CatalogStores ==
  UNION { [1..n -> CatalogDocs] : n \in 0..MaxCatalogDocs }

\* what the user can type into the search box
SearchInputs == {EmptyStr, <<"R", "I">>}

\* the stops the user drags a range slider to
SliderStops == {5, 6}

\* const categories = [...new Set(products.map(product => product.category))]
Categories(prods) == { p.category : p \in { q \in Elems(prods) : Has(q, "category") } }

\* matchesSearch
MatchesSearch(product, term) ==
  \/ Has(product, "name")
     /\ Includes(ToLowerCase(product.name), ToLowerCase(term))
  \/ Has(product, "description")
     /\ Includes(ToLowerCase(product.description), ToLowerCase(term))

\* matchesCategory
MatchesCategory(product, category) ==
  IF category # "" THEN Has(product, "category") /\ product.category = category ELSE TRUE

\* matchesStock
MatchesStock(product, filter) ==
  CASE filter = "all" -> TRUE
    [] filter = "inStock" -> ~(Has(product, "inStock") /\ product.inStock = FALSE)
    [] filter = "outOfStock" -> Has(product, "inStock") /\ product.inStock = FALSE
    [] OTHER -> TRUE

\* matchesWeight
MatchesWeight(product, range) ==
  IF TruthyStr(product, "weight")
  THEN LET productWeight == ParsedWeight(product)
       IN IF ~productWeight.nan
          THEN AtLeast(productWeight, range.min) /\ AtMost(productWeight, range.max)
          ELSE TRUE
  ELSE TRUE

\* matchesFavorites
MatchesFavorites(product, only, favs) ==
  IF only THEN product.id \in Elems(favs) ELSE TRUE

\* a filter callback that leaves the favorites-only setting out
MatchesWithoutFavorites(product) ==
  /\ MatchesSearch(product, searchTerm)
  /\ MatchesCategory(product, categoryFilter)
  /\ MatchesStock(product, stockFilter)
  /\ MatchesWeight(product, weightRange)

\* the callback of products.filter: the conjunction it returns
Matches(product) ==
  /\ MatchesSearch(product, searchTerm)
  /\ MatchesCategory(product, categoryFilter)
  /\ MatchesStock(product, stockFilter)
  /\ MatchesWeight(product, weightRange)
  /\ MatchesFavorites(product, showFavoritesOnly, favorites)

\* const filteredProducts = products.filter(...)
FilteredProducts == SelectSeq(catProducts, Matches)

\* the out-of-stock badge of a card and of the detail modal
CatalogOutOfStockBadge(product) == Has(product, "inStock") /\ product.inStock = FALSE

\* the status label of the detail modal
CatalogStatusLabel(product) ==
  IF Has(product, "inStock") /\ product.inStock = FALSE THEN "Out of Stock" ELSE "In Stock"

\* the out-of-stock badge of the admin list: !product.inStock
AdminOutOfStockBadge(product) == ~TruthyBool(product, "inStock")

\* the label of the admin list's toggle button
AdminToggleLabel(product) ==
  IF TruthyBool(product, "inStock") THEN "Mark Out of Stock" ELSE "Mark In Stock"

\* the weight-range effect: the bounds after products changed to prods
WeightRangeAfter(prods, range) ==
  LET weights == { ParsedWeight(p) : p \in { q \in Elems(prods) : TruthyStr(q, "weight") } }
      numbers == { w \in weights : ~w.nan }
      least == CHOOSE w \in numbers : \A v \in numbers : w.num * v.den <= v.num * w.den
      most == CHOOSE w \in numbers : \A v \in numbers : w.num * v.den >= v.num * w.den
  IN IF Len(prods) > 0 /\ numbers # {}
     THEN [min |-> Floor(least), max |-> Ceil(most)]
     ELSE range

\* the onValue callback of Catalog, and the weight-range effect that follows it
CatalogOnValue ==
  /\ isLoading \/ catProducts # Snapshot(db)
  /\ catProducts' = Snapshot(db)
  /\ isLoading' = FALSE
  /\ UNCHANGED animateItems
  /\ weightRange' = WeightRangeAfter(Snapshot(db), weightRange)
  /\ UNCHANGED <<searchTerm, categoryFilter, stockFilter, sortBy, favorites,
                 showFavoritesOnly, localStorage>>
  /\ UNCHANGED <<adminVars, calcVars, overlayVars>>

\* setTimeout(() => setAnimateItems(true), 300), set by the onValue callback
AnimateItems ==
  /\ ~isLoading
  /\ ~animateItems
  /\ animateItems' = TRUE
  /\ UNCHANGED <<catProducts, searchTerm, categoryFilter, weightRange, stockFilter,
                 isLoading, sortBy, favorites, showFavoritesOnly, localStorage>>
  /\ UNCHANGED <<adminVars, calcVars, overlayVars>>

SetSearchTerm(value) ==
  /\ searchTerm' = value
  /\ UNCHANGED <<catProducts, categoryFilter, weightRange, stockFilter, isLoading, sortBy,
                 favorites, showFavoritesOnly, animateItems, localStorage>>
  /\ UNCHANGED <<adminVars, calcVars, overlayVars>>

SetCategoryFilter(value) ==
  /\ categoryFilter' = value
  /\ UNCHANGED <<catProducts, searchTerm, weightRange, stockFilter, isLoading, sortBy,
                 favorites, showFavoritesOnly, animateItems, localStorage>>
  /\ UNCHANGED <<adminVars, calcVars, overlayVars>>

SetStockFilter(value) ==
  /\ stockFilter' = value
  /\ UNCHANGED <<catProducts, searchTerm, categoryFilter, weightRange, isLoading, sortBy,
                 favorites, showFavoritesOnly, animateItems, localStorage>>
  /\ UNCHANGED <<adminVars, calcVars, overlayVars>>

\* the sort options the user picks among
SortInputs == {"featured", "weightLowToHigh", "weightHighToLow"}

\* setSortBy(e.target.value)
SetSortBy(value) ==
  /\ sortBy' = value
  /\ UNCHANGED <<catProducts, searchTerm, categoryFilter, weightRange, stockFilter,
                 isLoading, favorites, showFavoritesOnly, animateItems, localStorage>>
  /\ UNCHANGED <<adminVars, calcVars, overlayVars>>

\* clearFilters: it resets the search text, the category, the stock filter, the sort
\* option and the favorites-only setting
ClearFilters ==
  /\ searchTerm' = EmptyStr
  /\ categoryFilter' = ""
  /\ stockFilter' = "all"
  /\ sortBy' = "featured"
  /\ showFavoritesOnly' = FALSE
  /\ UNCHANGED <<catProducts, weightRange, isLoading, favorites, animateItems,
                 localStorage>>
  /\ UNCHANGED <<adminVars, calcVars, overlayVars>>

\* the max attribute of both range sliders
SliderMax == IF weightRange.max > 0 THEN weightRange.max ELSE 1000

\* setWeightRange({...weightRange, min: parseInt(e.target.value)})
SetWeightMin(value) ==
  /\ value <= SliderMax
  /\ weightRange' = [weightRange EXCEPT !.min = value]
  /\ UNCHANGED <<catProducts, searchTerm, categoryFilter, stockFilter, isLoading, sortBy,
                 favorites, showFavoritesOnly, animateItems, localStorage>>
  /\ UNCHANGED <<adminVars, calcVars, overlayVars>>

\* setWeightRange({...weightRange, max: parseInt(e.target.value)})
SetWeightMax(value) ==
  /\ value <= SliderMax
  /\ weightRange' = [weightRange EXCEPT !.max = value]
  /\ UNCHANGED <<catProducts, searchTerm, categoryFilter, stockFilter, isLoading, sortBy,
                 favorites, showFavoritesOnly, animateItems, localStorage>>
  /\ UNCHANGED <<adminVars, calcVars, overlayVars>>

SetShowFavoritesOnly(checked) ==
  /\ showFavoritesOnly' = checked
  /\ UNCHANGED <<catProducts, searchTerm, categoryFilter, weightRange, stockFilter,
                 isLoading, sortBy, favorites, animateItems, localStorage>>
  /\ UNCHANGED <<adminVars, calcVars, overlayVars>>

\* a toggle that only ever adds
AlwaysAdded(favs, productId) == Append(favs, productId)

\* favorites.includes(productId) ? favorites.filter(id => id !== productId)
\*                               : [...favorites, productId]
NewFavorites(favs, productId) ==
  IF productId \in Elems(favs)
  THEN LET keep(id) == id # productId IN SelectSeq(favs, keep)
  ELSE Append(favs, productId)

\* the tokens of a JSON text: a bracket or a comma, or the string of an id
Mark(ch) == <<ch>>
IdString(id) == <<"id", id>>
IsIdString(token) == Len(token) = 2 /\ token[1] = "id"

\* JSON.stringify of a list of ids, as its tokens: [ id , id ... ]
RECURSIVE CommaSeparated(_)
CommaSeparated(list) ==
  IF Len(list) = 0 THEN <<>>
  ELSE IF Len(list) = 1 THEN <<IdString(list[1])>>
  ELSE <<IdString(Head(list)), Mark(",")>> \o CommaSeparated(Tail(list))

Stringify(list) == <<Mark("[")>> \o CommaSeparated(list) \o <<Mark("]")>>

\* JSON.parse of a text of such tokens: the list, or a SyntaxError
JSONParse(text) ==
  LET inner == SubSeq(text, 2, Len(text) - 1)
      wellFormed ==
        /\ Len(text) >= 2
        /\ text[1] = Mark("[") /\ text[Len(text)] = Mark("]")
        /\ Len(inner) = 0 \/ Len(inner) % 2 = 1
        /\ \A n \in 1..Len(inner) :
             IF n % 2 = 0 THEN inner[n] = Mark(",") ELSE IsIdString(inner[n])
  IN IF wellFormed
     THEN [threw |-> FALSE,
           value |-> [n \in 1..((Len(inner) + 1) \div 2) |-> inner[2 * n - 1][2]]]
     ELSE [threw |-> TRUE, value |-> <<>>]

\* a stored text that is no JSON
BrokenText == <<Mark("["), IdString(1)>>

\* the favorites the mount effect loads from the stored entry; read is whether
\* localStorage.getItem returned (it throws where storage access is denied)
LoadedFavorites(entry, read) ==
  IF read /\ entry # <<>> /\ ~JSONParse(entry[1]).threw
  THEN JSONParse(entry[1]).value
  ELSE <<>>

\* toggleFavorite: setFavorites, then localStorage.setItem, which throws when the
\* quota is exceeded or storage is denied (stored = FALSE)
ToggleFavorite(productId, stored) ==
  /\ favorites' = NewFavorites(favorites, productId)
  /\ localStorage' = IF stored THEN <<Stringify(NewFavorites(favorites, productId))>>
                     ELSE localStorage
  /\ uncaught' = IF stored THEN uncaught ELSE "handler"
  /\ UNCHANGED <<catProducts, searchTerm, categoryFilter, weightRange, stockFilter,
                 isLoading, sortBy, showFavoritesOnly, animateItems>>
  /\ UNCHANGED <<goldRate, makingCharge, priceCall>>
  /\ UNCHANGED <<adminVars, overlayVars>>

CatalogSpecInit ==
  /\ db \in CatalogStores
  /\ AdminInit
  /\ CatalogInit

CatalogNext ==
  \/ CatalogOnValue
  \/ AnimateItems
  \/ \E value \in SearchInputs : SetSearchTerm(value)
  \/ \E value \in {""} \cup Categories(catProducts) : SetCategoryFilter(value)
  \/ \E value \in {"all", "inStock", "outOfStock"} : SetStockFilter(value)
  \/ \E value \in SliderStops : SetWeightMin(value)
  \/ \E value \in SliderStops : SetWeightMax(value)
  \/ \E checked \in BOOLEAN : SetShowFavoritesOnly(checked)
  \/ \E product \in Elems(FilteredProducts) : ToggleFavorite(product.id, TRUE)

\* the catalog opened on a collection of the store
CatalogSpec == CatalogSpecInit /\ [][CatalogNext]_vars

\* the catalog with every filter control, the sort control and "Clear Filters"
ClearSpec ==
  CatalogSpecInit
    /\ [][\/ CatalogNext
          \/ \E value \in SortInputs : SetSortBy(value)
          \/ ClearFilters]_vars

----------------------------------------------------------------------------
(* Catalog: the price calculator *)

\* numbers are fractions num/den with den > 0, or NaN
Number(n) == [nan |-> FALSE, num |-> n, den |-> 1]

Abs(n) == IF n < 0 THEN -n ELSE n

RECURSIVE GCD(_, _)
GCD(a, b) == IF b = 0 THEN a ELSE GCD(b, a % b)

\* the number num/den, in lowest terms
Fraction(num, den) ==
  [nan |-> FALSE, num |-> num \div GCD(Abs(num), den), den |-> den \div GCD(Abs(num), den)]

\* a * b
Times(a, b) ==
  IF a.nan \/ b.nan THEN NaN ELSE Fraction(a.num * b.num, a.den * b.den)

\* a / n for a positive integer n
DividedBy(a, n) == IF a.nan THEN NaN ELSE Fraction(a.num, a.den * n)

\* a + b
Plus(a, b) ==
  IF a.nan \/ b.nan THEN NaN
  ELSE Fraction(a.num * b.den + b.num * a.den, a.den * b.den)

\* a and b are the same number
SameNumber(a, b) == ~a.nan /\ ~b.nan /\ a.num * b.den = b.num * a.den

\* an argument that was not passed, and one that was
Undefined == [defined |-> FALSE]
Text(str) == [defined |-> TRUE, text |-> str]

\* parseFloat(weight?.replace(/[^\d.-]/g, '') || 0)
WeightValue(weight) ==
  IF ~weight.defined THEN Number(0)
  ELSE IF StripWeight(weight.text) = <<>> THEN Number(0)
  ELSE ParseFloat(StripWeight(weight.text))

DefaultPurity == 22

\* the purity parameter: rest is the argument list after weight
PurityArg(rest) == IF rest = <<>> THEN DefaultPurity ELSE rest[1]

\* a purity ratio taken out of 100
PurityPercent(purity) == DividedBy(Number(purity), 100)

\* const purityRatio = purity / 24
PurityRatio(purity) == DividedBy(Number(purity), 24)

\* calculatePrice(weight, ...rest) with the goldRate and makingCharge of the render
CalculatePrice(weight, rest, rate, charge) ==
  LET weightValue == WeightValue(weight)
      purityRatio == PurityRatio(PurityArg(rest))
      basePrice == Times(Times(weightValue, Number(rate)), purityRatio)
      makingChargeAmount == DividedBy(Times(basePrice, Number(charge)), 100)
  IN [basePrice |-> basePrice,
      makingChargeAmount |-> makingChargeAmount,
      totalPrice |-> Plus(basePrice, makingChargeAmount)]

\* the weight strings calculatePrice is called with
WeightTexts ==
  { <<"1", "0", "g">>, <<"1", "2", ".", "5", "g">>, <<"a", "b", "c">>, <<"-">>, <<".">>,
    EmptyStr }

WeightArgs == {Undefined} \cup { Text(t) : t \in WeightTexts }

\* the argument lists after weight: none, or a purity in karat
PurityArgs == {<<>>, <<22>>, <<24>>}

\* what the user can enter as gold rate and as making charge
RateInputs == {0, 50}
ChargeInputs == {0, 10}

\* setGoldRate(parseFloat(e.target.value) || 0)
SetGoldRate(value) ==
  /\ goldRate' = value
  /\ UNCHANGED <<makingCharge, priceCall, uncaught>>
  /\ UNCHANGED <<catProducts, searchTerm, categoryFilter, weightRange, stockFilter,
                 isLoading, sortBy, favorites, showFavoritesOnly, animateItems,
                 localStorage>>
  /\ UNCHANGED <<adminVars, overlayVars>>

\* setMakingCharge(parseFloat(e.target.value) || 0)
SetMakingCharge(value) ==
  /\ makingCharge' = value
  /\ UNCHANGED <<goldRate, priceCall, uncaught>>
  /\ UNCHANGED <<catProducts, searchTerm, categoryFilter, weightRange, stockFilter,
                 isLoading, sortBy, favorites, showFavoritesOnly, animateItems,
                 localStorage>>
  /\ UNCHANGED <<adminVars, overlayVars>>

\* a call of calculatePrice
CalculatePriceCall(weight, rest) ==
  /\ priceCall' = [called |-> TRUE, weight |-> weight, rest |-> rest, goldRate |-> goldRate,
                   makingCharge |-> makingCharge,
                   returned |-> CalculatePrice(weight, rest, goldRate, makingCharge)]
  /\ UNCHANGED <<goldRate, makingCharge, uncaught>>
  /\ UNCHANGED <<catProducts, searchTerm, categoryFilter, weightRange, stockFilter,
                 isLoading, sortBy, favorites, showFavoritesOnly, animateItems,
                 localStorage>>
  /\ UNCHANGED <<adminVars, overlayVars>>

\* parseFloat(a.weight?.replace(/[^\d.-]/g, '') || 0): the sort key of a product
SortKey(product) ==
  WeightValue(IF Has(product, "weight") THEN Text(product.weight) ELSE Undefined)

\* a - b is negative
Less(a, b) == ~a.nan /\ ~b.nan /\ a.num * b.den < b.num * a.den

\* the compare function puts list[i] before list[k]: a negative result, or a zero
\* result and the earlier position (the sort is stable)
SortsBefore(list, order, i, k) ==
  LET a == SortKey(list[i])
      b == SortKey(list[k])
  IN IF order = "weightLowToHigh"
     THEN Less(a, b) \/ (SameNumber(a, b) /\ i < k)
     ELSE Less(b, a) \/ (SameNumber(a, b) /\ i < k)

\* the list rearranged by a permutation of its positions
Rearranged(list, perm) == [n \in 1..Len(list) |-> list[perm[n]]]

\* [...list].sort(compare): what the sort may return.  With 'featured' the compare
\* function returns 0 and the order is kept.  With a weight order and keys that are all
\* numbers it is the stable sorted order.  When a key is NaN the compare function
\* returns NaN, it is no consistent comparison, and the order the engine leaves is
\* implementation-defined.
SortOutcomes(list, order) ==
  LET perms == Permutations(1..Len(list))
  IN IF order = "featured" THEN {list}
     ELSE IF \A n \in 1..Len(list) : ~SortKey(list[n]).nan
     THEN { Rearranged(list, perm) : perm \in
              { q \in perms : \A i, k \in 1..Len(list) :
                                i < k => SortsBefore(list, order, q[i], q[k]) } }
     ELSE { Rearranged(list, perm) : perm \in perms }

\* const sortedProducts = [...filteredProducts].sort(...)
SortedProducts == SortOutcomes(FilteredProducts, sortBy)

\* the entries the browser may hold when a session starts
StoredEntries == { <<>>, <<Stringify(<<1>>)>>, <<BrokenText>> }

\* the collection the favorites are picked from
FavoriteStores == { <<LegacyDoc, ChainDoc, UnweighedDoc>> }

\* a session starts: the component is constructed and its mount effect loads the
\* favorites; read is whether localStorage.getItem returned
Mount(read) ==
  /\ catProducts' = <<>>
  /\ searchTerm' = EmptyStr
  /\ categoryFilter' = ""
  /\ weightRange' = [min |-> 0, max |-> 1000]
  /\ stockFilter' = "all"
  /\ isLoading' = TRUE
  /\ sortBy' = "featured"
  /\ favorites' = LoadedFavorites(localStorage, read)
  /\ showFavoritesOnly' = FALSE
  /\ animateItems' = FALSE
  /\ goldRate' = 0
  /\ makingCharge' = 10
  /\ priceCall' = NoCall
  /\ uncaught' = IF read THEN "" ELSE "effect"
  /\ selectedProduct' = NoProduct
  /\ isQuickViewVisible' = FALSE
  /\ quickViewProduct' = NoProduct
  /\ isCalculatorVisible' = FALSE
  /\ calculatorProduct' = NoProduct
  /\ timeouts' = [quickView |-> 0, calculator |-> 0]
  /\ UNCHANGED localStorage
  /\ UNCHANGED adminVars

\* a first session on a browser that holds some entry
FavoritesInit ==
  /\ db \in FavoriteStores
  /\ AdminInit
  /\ catProducts = <<>>
  /\ searchTerm = EmptyStr
  /\ categoryFilter = ""
  /\ weightRange = [min |-> 0, max |-> 1000]
  /\ stockFilter = "all"
  /\ isLoading = TRUE
  /\ sortBy = "featured"
  /\ showFavoritesOnly = FALSE
  /\ animateItems = FALSE
  /\ goldRate = 0
  /\ makingCharge = 10
  /\ priceCall = NoCall
  /\ selectedProduct = NoProduct
  /\ isQuickViewVisible = FALSE
  /\ quickViewProduct = NoProduct
  /\ isCalculatorVisible = FALSE
  /\ calculatorProduct = NoProduct
  /\ timeouts = [quickView |-> 0, calculator |-> 0]
  /\ localStorage \in StoredEntries
  /\ \E read \in BOOLEAN :
       /\ favorites = LoadedFavorites(localStorage, read)
       /\ uncaught = IF read THEN "" ELSE "effect"

FavoritesNext ==
  \/ \E read \in BOOLEAN : Mount(read)
  \/ uncaught # "effect" /\ CatalogOnValue
  \/ \E checked \in BOOLEAN : uncaught # "effect" /\ SetShowFavoritesOnly(checked)
  \/ \E product \in Elems(FilteredProducts) : \E stored \in BOOLEAN :
       uncaught # "effect" /\ ToggleFavorite(product.id, stored)

\* sessions of one browser toggling favorites
FavoritesSpec == FavoritesInit /\ [][FavoritesNext]_vars

\* the catalog with its sort select, search box and stock select in use
SortNext ==
  \/ CatalogOnValue
  \/ \E value \in SortInputs : SetSortBy(value)
  \/ \E value \in SearchInputs : SetSearchTerm(value)
  \/ \E value \in {"all", "inStock", "outOfStock"} : SetStockFilter(value)

SortSpec == CatalogSpecInit /\ [][SortNext]_vars

PriceNext ==
  \/ \E value \in RateInputs : SetGoldRate(value)
  \/ \E value \in ChargeInputs : SetMakingCharge(value)
  \/ \E weight \in WeightArgs : \E rest \in PurityArgs : CalculatePriceCall(weight, rest)

\* calculatePrice applied to its inputs
PriceSpec == CatalogSpecInit /\ [][PriceNext]_vars

\* the catalog open while admin clients delete products and toggle their stock
ShopNext ==
  \/ \E c \in Admins :
       \/ OnValue(c)
       \/ \E product \in Elems(products[c]) : \E confirmed, ok \in BOOLEAN :
            HandleDelete(c, product.id, confirmed, ok)
       \/ \E product \in Elems(products[c]) : \E ok \in BOOLEAN :
            HandleToggleStock(c, product, ok)
  \/ CatalogOnValue
  \/ \E value \in SliderStops : SetWeightMin(value)
  \/ \E value \in SliderStops : SetWeightMax(value)

ShopSpec == Init /\ [][ShopNext]_vars

----------------------------------------------------------------------------
(* Catalog: the detail modal, the quick view and the calculator overlay.    *)
(* The handlers also set document.body.style.overflow, which nothing reads. *)

\* openProductModal, from a product card or its "View Details" button
OpenProductModal(product) ==
  /\ selectedProduct' = product
  /\ UNCHANGED <<isQuickViewVisible, quickViewProduct, isCalculatorVisible,
                 calculatorProduct, timeouts>>
  /\ UNCHANGED <<catProducts, searchTerm, categoryFilter, weightRange, stockFilter,
                 isLoading, sortBy, favorites, showFavoritesOnly, animateItems,
                 localStorage>>
  /\ UNCHANGED <<adminVars, calcVars>>

\* closeProductModal, from the backdrop or the close button of the rendered modal
CloseProductModal ==
  /\ selectedProduct # NoProduct
  /\ selectedProduct' = NoProduct
  /\ UNCHANGED <<isQuickViewVisible, quickViewProduct, isCalculatorVisible,
                 calculatorProduct, timeouts>>
  /\ UNCHANGED <<catProducts, searchTerm, categoryFilter, weightRange, stockFilter,
                 isLoading, sortBy, favorites, showFavoritesOnly, animateItems,
                 localStorage>>
  /\ UNCHANGED <<adminVars, calcVars>>

\* showQuickView, from the quick view button of a product card
ShowQuickView(product) ==
  /\ quickViewProduct' = product
  /\ isQuickViewVisible' = TRUE
  /\ UNCHANGED <<selectedProduct, isCalculatorVisible, calculatorProduct, timeouts>>
  /\ UNCHANGED <<catProducts, searchTerm, categoryFilter, weightRange, stockFilter,
                 isLoading, sortBy, favorites, showFavoritesOnly, animateItems,
                 localStorage>>
  /\ UNCHANGED <<adminVars, calcVars>>

\* hideQuickView, from the backdrop or the close button of the rendered quick view:
\* the flag goes down at once and a timeout is set that will clear the product
HideQuickView ==
  /\ isQuickViewVisible /\ quickViewProduct # NoProduct
  /\ timeouts.quickView < MaxTimers
  /\ isQuickViewVisible' = FALSE
  /\ timeouts' = [timeouts EXCEPT !.quickView = @ + 1]
  /\ UNCHANGED <<selectedProduct, quickViewProduct, isCalculatorVisible,
                 calculatorProduct>>
  /\ UNCHANGED <<catProducts, searchTerm, categoryFilter, weightRange, stockFilter,
                 isLoading, sortBy, favorites, showFavoritesOnly, animateItems,
                 localStorage>>
  /\ UNCHANGED <<adminVars, calcVars>>

\* "View Details" of the rendered quick view: hideQuickView(), then
\* openProductModal(quickViewProduct)
QuickViewDetails ==
  /\ isQuickViewVisible /\ quickViewProduct # NoProduct
  /\ timeouts.quickView < MaxTimers
  /\ isQuickViewVisible' = FALSE
  /\ timeouts' = [timeouts EXCEPT !.quickView = @ + 1]
  /\ selectedProduct' = quickViewProduct
  /\ UNCHANGED <<quickViewProduct, isCalculatorVisible, calculatorProduct>>
  /\ UNCHANGED <<catProducts, searchTerm, categoryFilter, weightRange, stockFilter,
                 isLoading, sortBy, favorites, showFavoritesOnly, animateItems,
                 localStorage>>
  /\ UNCHANGED <<adminVars, calcVars>>

\* a timeout of hideQuickView fires: setQuickViewProduct(null)
QuickViewTimeout ==
  /\ timeouts.quickView > 0
  /\ timeouts' = [timeouts EXCEPT !.quickView = @ - 1]
  /\ quickViewProduct' = NoProduct
  /\ UNCHANGED <<selectedProduct, isQuickViewVisible, isCalculatorVisible,
                 calculatorProduct>>
  /\ UNCHANGED <<catProducts, searchTerm, categoryFilter, weightRange, stockFilter,
                 isLoading, sortBy, favorites, showFavoritesOnly, animateItems,
                 localStorage>>
  /\ UNCHANGED <<adminVars, calcVars>>

\* showCalculator, from the "Calculate Price" button of the rendered modal
ShowCalculator(product) ==
  /\ calculatorProduct' = product
  /\ isCalculatorVisible' = TRUE
  /\ UNCHANGED <<selectedProduct, isQuickViewVisible, quickViewProduct, timeouts>>
  /\ UNCHANGED <<catProducts, searchTerm, categoryFilter, weightRange, stockFilter,
                 isLoading, sortBy, favorites, showFavoritesOnly, animateItems,
                 localStorage>>
  /\ UNCHANGED <<adminVars, calcVars>>

\* hideCalculator, from the backdrop or the close button of the rendered calculator
HideCalculator ==
  /\ isCalculatorVisible /\ calculatorProduct # NoProduct
  /\ timeouts.calculator < MaxTimers
  /\ isCalculatorVisible' = FALSE
  /\ timeouts' = [timeouts EXCEPT !.calculator = @ + 1]
  /\ UNCHANGED <<selectedProduct, isQuickViewVisible, quickViewProduct,
                 calculatorProduct>>
  /\ UNCHANGED <<catProducts, searchTerm, categoryFilter, weightRange, stockFilter,
                 isLoading, sortBy, favorites, showFavoritesOnly, animateItems,
                 localStorage>>
  /\ UNCHANGED <<adminVars, calcVars>>

\* a timeout of hideCalculator fires: setCalculatorProduct(null)
CalculatorTimeout ==
  /\ timeouts.calculator > 0
  /\ timeouts' = [timeouts EXCEPT !.calculator = @ - 1]
  /\ calculatorProduct' = NoProduct
  /\ UNCHANGED <<selectedProduct, isQuickViewVisible, quickViewProduct,
                 isCalculatorVisible>>
  /\ UNCHANGED <<catProducts, searchTerm, categoryFilter, weightRange, stockFilter,
                 isLoading, sortBy, favorites, showFavoritesOnly, animateItems,
                 localStorage>>
  /\ UNCHANGED <<adminVars, calcVars>>

\* a shopper opening and closing the overlays while an admin deletes products and
\* toggles their stock state
OverlayNext ==
  \/ \E c \in Admins :
       \/ OnValue(c)
       \/ \E product \in Elems(products[c]) : \E confirmed, ok \in BOOLEAN :
            HandleDelete(c, product.id, confirmed, ok)
       \/ \E product \in Elems(products[c]) : \E ok \in BOOLEAN :
            HandleToggleStock(c, product, ok)
  \/ CatalogOnValue
  \/ \E product \in Elems(FilteredProducts) : OpenProductModal(product)
  \/ CloseProductModal
  \/ \E product \in Elems(FilteredProducts) : ShowQuickView(product)
  \/ HideQuickView
  \/ QuickViewDetails
  \/ QuickViewTimeout
  \/ selectedProduct # NoProduct /\ ShowCalculator(selectedProduct)
  \/ HideCalculator
  \/ CalculatorTimeout

OverlaySpec == Init /\ [][OverlayNext]_vars

----------------------------------------------------------------------------
(* Admin claims *)

\* name, weight or category of client c's form is empty
FormIncomplete(c) ==
  formData[c].name = EmptyStr \/ formData[c].weight = EmptyStr \/ formData[c].category = ""

\* C1: a handleSubmit run on a form whose name, weight or category is empty issues no
\* upload and no write, allocates no key, leaves the store and the blob store as they
\* were and alerts the user, in create mode and in edit mode alike.
C1_ValidationAborts ==
  [][\A c \in Admins :
       (HandleSubmit(c) /\ FormIncomplete(c))
       => /\ db' = db
          /\ blobs' = blobs
          /\ nextKey' = nextKey
          /\ sub'[c] = IdleSub
          /\ ~isSubmitting'[c]
          /\ ev' = [c |-> c, alert |-> RequiredMsg, failed |-> FALSE]]_vars

\* the validation message was just shown to a client whose form is in edit mode
C1_Witness ==
  /\ ev.alert = RequiredMsg
  /\ editMode[ev.c]
  /\ FormIncomplete(ev.c)
  /\ sub[ev.c] = IdleSub

\* the imageUrl stored under products/{id}, absent read as empty
StoredImageUrl(store, id) ==
  IF id \in DOMAIN store THEN Get(store[id], "imageUrl", NoUrl) ELSE NoUrl

\* C3: the write of an edit submission that supplied no file and no image URL leaves
\* the stored imageUrl of the (still stored) product as it was just before the write.
C3_EditKeepsStoredImageUrl ==
  [][\A c \in Admins :
       (/\ WriteDone(c, TRUE)
        /\ sub[c].editMode
        /\ sub[c].formData.image = null
        /\ sub[c].formData.imageUrl = NoUrl
        /\ sub[c].key \in DOMAIN db)
       => StoredImageUrl(db', sub[c].key) = StoredImageUrl(db, sub[c].key)]_vars

\* C4: a successful handleToggleStock on a product whose list entry is the stored
\* document writes inStock false if the product was in stock (true or absent) and true
\* if it was out of stock (false), and writes no other field.
C4_ToggleFlips ==
  [][\A c \in Admins : \A p \in Elems(products[c]) :
       (/\ HandleToggleStock(c, p, TRUE)
        /\ p.id \in DOMAIN db
        /\ p = Put(db[p.id], "id", p.id))
       => /\ db'[p.id].inStock = (Get(db[p.id], "inStock", TRUE) = FALSE)
          /\ Drop(db'[p.id], "inStock") = Drop(db[p.id], "inStock")]_vars

\* C5: every stored document has a non-empty name, weight and category.
C5_RequiredFieldsStored ==
  \A id \in DOMAIN db :
    /\ TruthyStr(db[id], "name")
    /\ TruthyStr(db[id], "weight")
    /\ TruthyText(db[id], "category")

\* C6: a submission with a file reaches its document write only with the blob uploaded
\* and the retrieval URL resolved into productData; a failed upload or a failed URL
\* resolution ends the submission without any document write.
C6_WriteAfterUpload ==
  /\ [](\A c \in Admins :
          (sub[c].pc = "write" /\ sub[c].formData.image # null)
          => /\ sub[c].fileKey \in DOMAIN blobs
             /\ sub[c].productData.imageUrl = DownloadURL(sub[c].fileKey))
  /\ [][\A c \in Admins :
          /\ (sub[c].pc \in {"upload", "geturl"} /\ sub'[c] # sub[c]) => db' = db
          /\ (UploadDone(c, FALSE) \/ GetUrlDone(c, FALSE))
             => (sub'[c] = IdleSub /\ db' = db)]_vars

\* a submission with a file has its upload and URL resolution behind it and its write pending
C6_Witness ==
  \E c \in Admins : sub[c].pc = "write" /\ sub[c].formData.image # null

\* C7: the imageUrl a successful submission stores is the retrieval URL of the blob
\* uploaded under the saved product's own key if a file was given (also when a URL was
\* given too), else the given URL, else, when creating, the empty string.
C7_ImagePrecedence ==
  [][\A c \in Admins :
       WriteDone(c, TRUE) =>
         LET s == sub[c]
             form == s.formData
             written == db'[s.key].imageUrl
         IN /\ form.image # null
               => /\ written = DownloadURL(s.key)
                  /\ s.key \in DOMAIN blobs
            /\ (form.image = null /\ form.imageUrl # NoUrl) => written = form.imageUrl
            /\ (form.image = null /\ form.imageUrl = NoUrl /\ ~s.editMode)
               => written = NoUrl]_vars

\* a file and a URL were both given; the file is uploaded under the product's key and
\* the write that stores its retrieval URL is pending
C7_Witness ==
  \E c \in Admins :
    /\ sub[c].pc = "write"
    /\ sub[c].formData.image # null
    /\ sub[c].formData.imageUrl # NoUrl
    /\ sub[c].key \in DOMAIN blobs
    /\ sub[c].productData.imageUrl = DownloadURL(sub[c].key)

\* C8: whenever a store or blob-store call of a handler run was rejected, that run
\* showed a message and left the client with no submission in flight.
C8_FailuresSurfaced ==
  ev.failed => (ev.alert # "" /\ ~isSubmitting[ev.c])

\* C9: editMode holds exactly when editId is set; a successful submission made in edit
\* mode merges its fields into products/{editId} and touches nothing else, one made in
\* create mode adds a document under a key not in the store; edit mode is entered only
\* by handleEdit, and a successful submission or Cancel leaves the form in create mode.
C9_Modes ==
  /\ [](\A c \in Admins : editMode[c] <=> editId[c] # null)
  /\ [][\A c \in Admins :
          /\ WriteDone(c, TRUE) =>
               LET s == sub[c]
               IN /\ \A i \in DOMAIN db \ {s.key} : i \in DOMAIN db' /\ db'[i] = db[i]
                  /\ DOMAIN db' = DOMAIN db \cup {s.key}
                  /\ \A f \in DOMAIN s.productData : db'[s.key][f] = s.productData[f]
                  /\ IF s.editMode
                     THEN /\ s.key = s.editId
                          /\ s.editId # null
                          /\ nextKey > s.key
                          /\ s.key \in DOMAIN db
                             => \A f \in DOMAIN db[s.key] \ DOMAIN s.productData :
                                  db'[s.key][f] = db[s.key][f]
                     ELSE /\ s.key \notin DOMAIN db
                          /\ db'[s.key] = s.productData
                  /\ ~editMode'[c] /\ editId'[c] = null
          /\ ResetForm(c) => (~editMode'[c] /\ editId'[c] = null)
          /\ (editMode'[c] /\ ~editMode[c])
             => \E p \in Elems(products[c]) : HandleEdit(c, p)]_vars

\* an edit submission was applied and its form is back in create mode
C9_Witness ==
  \E c \in Admins :
    /\ successMessage[c] = UpdatedMsg
    /\ ~editMode[c]
    /\ editId[c] = null
    /\ formData[c] = ResetFormData

\* the list of client c holds one entry per stored document, carrying its id and its
\* fields, in key order, and nothing else
ListIsCollection(list, store) ==
  /\ Len(list) = Cardinality(DOMAIN store)
  /\ \A n \in 1..Len(list) :
       /\ list[n].id \in DOMAIN store
       /\ DOMAIN list[n] = DOMAIN store[list[n].id] \cup {"id"}
       /\ \A f \in DOMAIN store[list[n].id] : list[n][f] = store[list[n].id][f]
  /\ \A n, k \in 1..Len(list) : n < k => list[n].id < list[k].id

\* C11: whenever a snapshot is delivered to a client (the onValue callback runs, for a
\* change of its own or of another client), the client's products list becomes exactly
\* the stored collection, one entry per document with its id, the empty list for the
\* empty collection; and eventually every client's list equals the store's collection
\* for good.
C11_ListFollowsSnapshots ==
  /\ [][\A c \in Admins :
          /\ OnValue(c) => ListIsCollection(products'[c], db)
          /\ products'[c] # products[c] => ListIsCollection(products'[c], db')]_vars
  /\ <>[](\A c \in Admins : ListIsCollection(products[c], db))

\* a client whose list held a product has received the snapshot of the emptied
\* collection, which another client's delete produced
C11_Witness ==
  /\ db = <<>>
  /\ writes = 1
  /\ \A c \in Admins : products[c] = <<>>
  /\ ev = NoEv

\* C20: a create-mode submission that passed validation is given a key that no stored
\* document and no other submission in flight has; its write stores the whole form
\* record (every field but the file) under that key, which was not in the collection,
\* and leaves every other document as it was.
C20_CreateWritesFreshDocument ==
  [][\A c \in Admins :
       /\ (HandleSubmit(c) /\ ~editMode[c] /\ ~FormIncomplete(c))
          => /\ sub'[c].key \notin DOMAIN db
             /\ \A d \in Admins \ {c} : sub[d] # IdleSub => sub[d].key # sub'[c].key
       /\ (WriteDone(c, TRUE) /\ ~sub[c].editMode)
          => LET key == sub[c].key
                 form == sub[c].formData
             IN /\ key \notin DOMAIN db
                /\ DOMAIN db' = DOMAIN db \cup {key}
                /\ DOMAIN db'[key] = DOMAIN form \ {"image"}
                /\ \A f \in DOMAIN form \ {"image", "imageUrl"} : db'[key][f] = form[f]
                /\ \A id \in DOMAIN db : db'[id] = db[id]]_vars

\* a created product is stored under the pushed key next to the product that was there
C20_Witness ==
  /\ \E c \in Admins : successMessage[c] = AddedMsg
  /\ FirstKey \in DOMAIN db
  /\ 1 \in DOMAIN db
  /\ db[FirstKey].name = NameRi

----------------------------------------------------------------------------
(* Catalog claims *)

\* the bounds the range control is to show for a collection: floor of the smallest and
\* ceiling of the largest parsed weight, [0, 1000] when no weight parses
BoundsOf(prods) == WeightRangeAfter(prods, [min |-> 0, max |-> 1000])

\* C12: every snapshot delivery leaves the weight-range bounds at the floor of the
\* smallest and the ceiling of the largest parsed weight of the delivered collection,
\* and at [0, 1000] when the delivered collection has no parseable weight, whatever
\* the bounds were before.
C12_BoundsRecomputed ==
  [][CatalogOnValue => weightRange' = BoundsOf(catProducts')]_vars

\* the positions of the collection whose product passes every one of the five filters
PassingPositions ==
  { n \in 1..Len(catProducts) :
      /\ MatchesSearch(catProducts[n], searchTerm)
      /\ MatchesCategory(catProducts[n], categoryFilter)
      /\ MatchesStock(catProducts[n], stockFilter)
      /\ MatchesWeight(catProducts[n], weightRange)
      /\ MatchesFavorites(catProducts[n], showFavoritesOnly, favorites) }

\* C2: the filtered sequence is the collection restricted to the products that pass all
\* five filters (search, category, stock, weight range, favorites-only), in collection
\* order: nothing that fails one of them is in it, nothing that passes all is left out.
C2_FilterIsConjunction ==
  /\ Len(FilteredProducts) = Cardinality(PassingPositions)
  /\ \A k \in 1..Len(FilteredProducts) :
       FilteredProducts[k] = catProducts[SortedKeys(PassingPositions)[k]]

\* all five filters are set, one product passes them and another is filtered out
C2_Witness ==
  /\ searchTerm # EmptyStr
  /\ categoryFilter # ""
  /\ stockFilter # "all"
  /\ weightRange.min > 0
  /\ showFavoritesOnly
  /\ Len(FilteredProducts) = 1
  /\ Len(catProducts) = 2

\* C10: a listed product counts as out of stock exactly when its inStock is false (so
\* not when inStock is absent), and the catalog's stock filter, badge and status label
\* and the admin list's badge and toggle label all go by that.
C10_OneStockClassification ==
  \A c \in Admins : \A p \in Elems(products[c]) :
    LET out == Has(p, "inStock") /\ p.inStock = FALSE
    IN /\ MatchesStock(p, "outOfStock") = out
       /\ MatchesStock(p, "inStock") = ~out
       /\ CatalogOutOfStockBadge(p) = out
       /\ CatalogStatusLabel(p) = (IF out THEN "Out of Stock" ELSE "In Stock")
       /\ AdminOutOfStockBadge(p) = out
       /\ AdminToggleLabel(p) = (IF out THEN "Mark In Stock" ELSE "Mark Out of Stock")

\* text, compared without regard to case, occurs in str
OccursIn(text, str) == Includes(ToLowerCase(str), ToLowerCase(text))

\* C13: a product of the collection passes the search filter exactly when the search
\* text occurs, case-insensitively, in its name or in its description (a missing field
\* read as empty), and with an empty search text every product passes.
C13_SearchIsSubstring ==
  \A p \in Elems(catProducts) :
    /\ MatchesSearch(p, searchTerm)
         <=> \/ OccursIn(searchTerm, Get(p, "name", EmptyStr))
             \/ OccursIn(searchTerm, Get(p, "description", EmptyStr))
    /\ searchTerm = EmptyStr => MatchesSearch(p, searchTerm)

\* the weight of the last call does not parse as a number
WeightFailsToParse ==
  \/ ~priceCall.weight.defined
  \/ ParseFloat(StripWeight(priceCall.weight.text)).nan

\* C14: a calculatePrice call whose weight is missing or does not parse to a number
\* returns basePrice 0, makingChargeAmount 0 and totalPrice 0.
C14_UnparseableWeightPricesZero ==
  (priceCall.called /\ WeightFailsToParse)
  => /\ SameNumber(priceCall.returned.basePrice, Number(0))
     /\ SameNumber(priceCall.returned.makingChargeAmount, Number(0))
     /\ SameNumber(priceCall.returned.totalPrice, Number(0))

\* x, rounded to two decimals, is cents / 100
RoundsTo(x, cents) ==
  /\ ~x.nan
  /\ 2 * (100 * x.num - cents * x.den) <= x.den
  /\ 2 * (cents * x.den - 100 * x.num) <= x.den

\* C15: a calculatePrice call whose weight parses to w returns basePrice =
\* w * goldRate * purity / 24, makingChargeAmount = basePrice * makingCharge / 100 and
\* totalPrice = basePrice + makingChargeAmount exactly, purity being 22 when it is not
\* passed; for "10g", rate 50 and making charge 10 that is 458.33, 45.83 and 504.17
\* to two decimals.
C15_PriceFormula ==
  (priceCall.called /\ ~WeightFailsToParse)
  => LET w == ParseFloat(StripWeight(priceCall.weight.text))
         purity == IF priceCall.rest = <<>> THEN 22 ELSE priceCall.rest[1]
         r == priceCall.returned
     IN /\ ~r.basePrice.nan /\ ~r.makingChargeAmount.nan /\ ~r.totalPrice.nan
        /\ r.basePrice.num * (w.den * 24)
             = (w.num * priceCall.goldRate * purity) * r.basePrice.den
        /\ r.makingChargeAmount.num * (r.basePrice.den * 100)
             = (r.basePrice.num * priceCall.makingCharge) * r.makingChargeAmount.den
        /\ r.totalPrice.num * (r.basePrice.den * r.makingChargeAmount.den)
             = (r.basePrice.num * r.makingChargeAmount.den
                + r.makingChargeAmount.num * r.basePrice.den) * r.totalPrice.den
        /\ (/\ priceCall.weight.text = <<"1", "0", "g">>
            /\ purity = 22 /\ priceCall.goldRate = 50 /\ priceCall.makingCharge = 10)
           => /\ RoundsTo(r.basePrice, 45833)
              /\ RoundsTo(r.makingChargeAmount, 4583)
              /\ RoundsTo(r.totalPrice, 50417)

\* the spec's example call, made without a purity argument, has returned
C15_Witness ==
  /\ priceCall.called
  /\ priceCall.weight = Text(<<"1", "0", "g">>)
  /\ priceCall.rest = <<>>
  /\ priceCall.goldRate = 50
  /\ priceCall.makingCharge = 10
  /\ RoundsTo(priceCall.returned.totalPrice, 50417)

\* the weight a product is to be ordered by: its parsed weight, 0 when the weight is
\* missing or does not parse
WeightOrZero(product) ==
  IF TruthyStr(product, "weight") /\ ~ParsedWeight(product).nan
  THEN ParsedWeight(product)
  ELSE Number(0)

\* C16: under a weight sort every sequence the sort may display is a rearrangement of
\* the filtered products in nondecreasing (ascending sort) or nonincreasing (descending
\* sort) order of weight, a missing or unparseable weight counting as 0.
C16_WeightSortOrders ==
  sortBy \in {"weightLowToHigh", "weightHighToLow"}
  => \A shown \in SortedProducts :
       /\ \E perm \in Permutations(1..Len(FilteredProducts)) :
            shown = Rearranged(FilteredProducts, perm)
       /\ \A i, k \in 1..Len(shown) :
            i < k => IF sortBy = "weightLowToHigh"
                     THEN ~Less(WeightOrZero(shown[k]), WeightOrZero(shown[i]))
                     ELSE ~Less(WeightOrZero(shown[i]), WeightOrZero(shown[k]))

\* C17: a product of the collection passes the weight-range filter exactly when its
\* weight is missing or does not parse to a number, or parses to a number w with
\* min <= w <= max, both bounds included.
C17_WeightRangeFilter ==
  \A p \in Elems(catProducts) :
    LET w == ParseFloat(StripWeight(p.weight))
    IN MatchesWeight(p, weightRange)
         <=> IF Has(p, "weight") /\ ~w.nan
             THEN weightRange.min * w.den <= w.num /\ w.num <= weightRange.max * w.den
             ELSE TRUE

\* the range was moved off the collection's bounds; a product whose weight does not
\* parse still passes and one whose weight lies outside is filtered out
C17_Witness ==
  /\ \E p \in Elems(catProducts) :
       /\ TruthyStr(p, "weight") /\ ParsedWeight(p).nan
       /\ MatchesWeight(p, weightRange)
  /\ \E p \in Elems(catProducts) :
       /\ TruthyStr(p, "weight") /\ ~ParsedWeight(p).nan
       /\ ~MatchesWeight(p, weightRange)
  /\ weightRange # BoundsOf(catProducts)

\* the list the stored entry holds; <<>> for no entry or a text that is no list
Persisted == LoadedFavorites(localStorage, TRUE)

IsFavorite(favs, id) == id \in Elems(favs)

C19_StorageFailuresCaught ==
  uncaught = ""

\* ---------------------------------------------------------------------------
\* Deletion, submission flag, overlays and clearFilters
\* ---------------------------------------------------------------------------

\* C21: handleDelete issues the removal of products/{id} only when the user confirms.
\* A declined confirmation issues no store operation and leaves the collection and the
\* blob store as they were; a confirmed removal that the store accepts takes exactly
\* the document under that id out of the collection, whatever its fields and whether
\* or not some client has it open in the edit form; and a document only ever leaves the
\* collection by a confirmed handleDelete.
C21_DeleteOnlyOnConfirm ==
  [][/\ \A c \in Admins : \A id \in DOMAIN db \cup {editId[c]} : \A ok \in BOOLEAN :
          /\ HandleDelete(c, id, FALSE, ok)
                => /\ db' = db
                   /\ blobs' = blobs
                   /\ writes' = writes
          /\ HandleDelete(c, id, TRUE, TRUE)
                => /\ id \notin DOMAIN db'
                   /\ DOMAIN db' = DOMAIN db \ {id}
                   /\ \A k \in DOMAIN db' : db'[k] = db[k]
     /\ (DOMAIN db \ DOMAIN db' # {})
          => \E c \in Admins : \E product \in Elems(products[c]) :
               HandleDelete(c, product.id, TRUE, TRUE)]_vars

\* a client still has a product open in the edit form whose document a confirmed
\* handleDelete has removed from the collection
C21_Witness ==
  \E c \in Admins :
    /\ editMode[c]
    /\ editId[c] # null
    /\ editId[c] \notin DOMAIN db
    /\ writes = 1
    /\ nextKey = FirstKey

\* C22: when no two products of the collection have equal weights (a missing or
\* unparseable weight counting as 0), then for the filters in effect every sequence the
\* weight-descending sort may display is the reverse of every sequence the
\* weight-ascending sort may display.
C22_DescendingReversesAscending ==
  LET list == FilteredProducts
      up == SortOutcomes(list, "weightLowToHigh")
      down == SortOutcomes(list, "weightHighToLow")
  IN (\A i, k \in 1..Len(catProducts) :
        i # k => ~SameNumber(WeightOrZero(catProducts[i]), WeightOrZero(catProducts[k])))
     => \A a \in up : \A d \in down :
          d = [n \in 1..Len(a) |-> a[Len(a) + 1 - n]]

\* C23: a deleted document stays absent.  No edit submission whose form was opened
\* before the deletion, and no stock toggle issued from a list received before the
\* deletion, brings back a document under an id that is no longer in the collection.
C23_DeletedStaysAbsent ==
  [][\A c \in Admins :
       /\ (WriteDone(c, TRUE) /\ sub[c].editMode /\ sub[c].key \notin DOMAIN db)
            => sub[c].key \notin DOMAIN db'
       /\ \A product \in Elems(products[c]) :
            (HandleToggleStock(c, product, TRUE) /\ product.id \notin DOMAIN db)
              => product.id \notin DOMAIN db']_vars

\* C24: isSubmitting is true exactly while a handleSubmit invocation of the client is
\* in flight.  A valid submission sets it on entry; every exit (success, validation
\* failure, upload failure, URL failure, store-write failure) leaves it false; and
\* handleSubmit, reachable only while the flag is false, never starts while an earlier
\* invocation of the same client is in flight.
C24_SubmittingWhileInFlight ==
  /\ [](\A c \in Admins : isSubmitting[c] <=> sub[c].pc # "idle")
  /\ [][\A c \in Admins :
          /\ HandleSubmit(c)
               => /\ sub[c].pc = "idle"
                  /\ isSubmitting'[c] <=> ~MissingRequired(Drop(formData[c], "image"))
          /\ (\/ UploadDone(c, FALSE)
              \/ GetUrlDone(c, FALSE)
              \/ WriteDone(c, FALSE)
              \/ WriteDone(c, TRUE))
               => /\ ~isSubmitting'[c]
                  /\ sub'[c].pc = "idle"]_vars

\* one client's submission is in flight at its document write with the flag set, while
\* the other client's submission has just ended in a store failure with the flag cleared
C24_Witness ==
  \E c, d \in Admins :
    /\ c # d
    /\ isSubmitting[c]
    /\ sub[c].pc = "write"
    /\ ev = [c |-> d, alert |-> StoreErrorMsg, failed |-> TRUE]
    /\ ~isSubmitting[d]
    /\ sub[d].pc = "idle"

\* C25: whenever isCalculatorVisible is true calculatorProduct is not null, and
\* whenever isQuickViewVisible is true quickViewProduct is not null, in every
\* interleaving of show, hide and the delayed clears.
C25_VisibleHasProduct ==
  /\ isCalculatorVisible => calculatorProduct # NoProduct
  /\ isQuickViewVisible => quickViewProduct # NoProduct

\* C26: the product an open detail modal, quick view or calculator holds is the entry
\* with the same id of the latest delivered snapshot; after a snapshot in which that
\* product was deleted or changed no overlay holds the deleted product or its old
\* field values.
C26_OverlayFollowsSnapshot ==
  LET Current(shown) ==
        shown # NoProduct => \E i \in 1..Len(catProducts) : catProducts[i] = shown
  IN /\ Current(selectedProduct)
     /\ Current(quickViewProduct)
     /\ Current(calculatorProduct)

\* C27: in the state clearFilters produces every product of the current collection is
\* displayed, in collection order, whatever search text, category, stock state, weight
\* range, sort option and favorites-only setting were in effect before.
C27_ClearShowsAll ==
  [][ClearFilters => SortedProducts' = {catProducts'}]_vars

====
